---- MODULE Spec2Model ----
(***************************************************************************)
(* Model of app.py: a FastAPI front-end that fetches article data from an  *)
(* upstream API, enriches it with a slug and a short author name and       *)
(* renders it.                                                             *)
(*                                                                         *)
(* Text is a sequence of one-character strings.  A Python value that may   *)
(* be None, or a JSON field that may be missing, is a record [t, s]: t is  *)
(* "str" (s is the text), "null" (None / JSON null) or "absent" (the key   *)
(* is not in the dict).                                                    *)
(***************************************************************************)
EXTENDS Integers, Sequences, FiniteSets, Bags, TLC

\* ------------------------------------------------------------- bounds
\* Longest text the pure functions are applied to in SpecPure.
MaxLen == 4
\* Most records in one upstream page in Spec.
MaxRecords == 2
\* Most requests suspended at their upstream call at one time in Spec.
MaxInFlight == 2

\* ------------------------------------------------------------- values
None == [t |-> "null", s |-> <<>>]
Absent == [t |-> "absent", s |-> <<>>]
Str(chars) == [t |-> "str", s |-> chars]

\* Python truthiness of an optional text: None and "" are falsy.
Truthy(v) == v.t = "str" /\ v.s # <<>>

\* dict.get(key, default): the default only when the key is missing; a key
\* that is present with JSON null yields None.
DictGet(field, default) == IF field.t = "absent" THEN default ELSE field

\* ---------------------------------------------------------- characters
LowerSeq == <<"a","b","c","d","e","f","g","h","i","j","k","l","m",
              "n","o","p","q","r","s","t","u","v","w","x","y","z">>
UpperSeq == <<"A","B","C","D","E","F","G","H","I","J","K","L","M",
              "N","O","P","Q","R","S","T","U","V","W","X","Y","Z">>
Digits == {"0","1","2","3","4","5","6","7","8","9"}
Range(f) == {f[i] : i \in DOMAIN f}
Lowers == Range(LowerSeq)
Uppers == Range(UpperSeq)
\* The characters str.strip() removes (those of them the model uses).
Whitespace == {" ", "\t", "\n"}
\* The characters slugify keeps: DISALLOWED_CHARS_PATTERN is [^-a-z0-9]+.
SlugChars == Lowers \cup Digits \cup {"-"}

\* str.lower() on one ASCII character.
ToLower(c) ==
    IF c \in Uppers
    THEN LowerSeq[CHOOSE i \in DOMAIN UpperSeq : UpperSeq[i] = c]
    ELSE c

\* ------------------------------------------------------ text primitives
RECURSIVE LStrip(_, _)
LStrip(s, cs) ==
    IF s # <<>> /\ Head(s) \in cs THEN LStrip(Tail(s), cs) ELSE s

RECURSIVE RStrip(_, _)
RStrip(s, cs) ==
    IF s # <<>> /\ s[Len(s)] \in cs
    THEN RStrip(SubSeq(s, 1, Len(s) - 1), cs)
    ELSE s

\* str.strip(chars)
Strip(s, cs) == RStrip(LStrip(s, cs), cs)

\* s.split(sep, maxsplit=1)[0]: the text before the first sep, all of s
\* when there is none.
RECURSIVE SplitFirst(_, _)
SplitFirst(s, sep) ==
    IF s = <<>> \/ Head(s) = sep
    THEN <<>>
    ELSE <<Head(s)>> \o SplitFirst(Tail(s), sep)

\* re.sub(r'[bad]+', rep, s): every maximal run of characters of bad in s
\* is replaced by rep.
RECURSIVE SubRunsFrom(_, _, _, _)
SubRunsFrom(s, bad, rep, i) ==
    IF i > Len(s) THEN <<>>
    ELSE IF s[i] \in bad
         THEN (IF i > 1 /\ s[i-1] \in bad THEN <<>> ELSE rep)
              \o SubRunsFrom(s, bad, rep, i + 1)
         ELSE <<s[i]>> \o SubRunsFrom(s, bad, rep, i + 1)

SubRuns(s, bad, rep) == SubRunsFrom(s, bad, rep, 1)

\* NUMBERS_PATTERN (?<=\d),(?=\d) replaced by '': a comma between two
\* digits is dropped.
RECURSIVE CleanNumbersFrom(_, _)
CleanNumbersFrom(s, i) ==
    IF i > Len(s) THEN <<>>
    ELSE IF /\ s[i] = ","
            /\ i > 1 /\ s[i-1] \in Digits
            /\ i < Len(s) /\ s[i+1] \in Digits
         THEN CleanNumbersFrom(s, i + 1)
         ELSE <<s[i]>> \o CleanNumbersFrom(s, i + 1)

\* DUPLICATE_DASH_PATTERN -{2,} replaced by '-'.
RECURSIVE CollapseDashesFrom(_, _)
CollapseDashesFrom(s, i) ==
    IF i > Len(s) THEN <<>>
    ELSE IF s[i] = "-" /\ i > 1 /\ s[i-1] = "-"
         THEN CollapseDashesFrom(s, i + 1)
         ELSE <<s[i]>> \o CollapseDashesFrom(s, i + 1)

\* slugify(text) of python-slugify with its defaults, on ASCII text that
\* holds no HTML entity (unidecode and the entity patterns then change
\* nothing): quotes to dashes, lowercase, quotes generated by the
\* transliteration dropped, digit-group commas dropped, every run of other
\* characters to one dash, dashes collapsed and stripped from both ends.
slugify(text) ==
    LET quoted   == SubRuns(text, {"'"}, <<"-">>)
        lowered  == [i \in DOMAIN quoted |-> ToLower(quoted[i])]
        unquoted == SubRuns(lowered, {"'"}, <<>>)
        numbers  == CleanNumbersFrom(unquoted, 1)
        allowed  == SubRuns(numbers, Range(numbers) \ SlugChars, <<"-">>)
    IN  Strip(CollapseDashesFrom(allowed, 1), {"-"})

\* create_slug with the call of slugify left out: the title is returned
\* as it is.
create_slug_raw(title) == IF ~Truthy(title) THEN <<>> ELSE title.s

\* create_slug(title)
create_slug(title) == IF ~Truthy(title) THEN <<>> ELSE slugify(title.s)

\* extract_first_author with the strip() left out.
extract_first_author_nostrip(author_string) ==
    IF ~Truthy(author_string) THEN <<>>
    ELSE SplitFirst(author_string.s, ",")

\* extract_first_author(author_string)
extract_first_author(author_string) ==
    IF ~Truthy(author_string) THEN <<>>
    ELSE Strip(SplitFirst(author_string.s, ","), Whitespace)


\* ------------------------------------------------------------- state
VARIABLES
    env,            \* os.environ: [API_BASE_URL, API_KEY], fixed for the process
    phase,          \* "boot" before the module is imported, then "failed" or "serving"
    API_BASE_URL,   \* module global (None until the import assigns it)
    API_KEY,        \* module global
    PAGE_SIZE,      \* module global (0 while the name is unbound)
    inflight,       \* bag of the requests suspended at their awaited upstream call
    served,         \* the latest completed exchange: request, upstream outcome, response
    pureOp,         \* SpecPure: the pure function applied last
    pureIn,         \* SpecPure: its argument
    pureOut,        \* SpecPure: its result
    purePrev        \* SpecPure: the result before it

vars == <<env, phase, API_BASE_URL, API_KEY, PAGE_SIZE, inflight, served,
          pureOp, pureIn, pureOut, purePrev>>
serverVars == <<env, phase, API_BASE_URL, API_KEY, PAGE_SIZE, inflight, served>>
pureVars == <<pureOp, pureIn, pureOut, purePrev>>

\* PAGE_SIZE = 50
PageSizeLiteral == 50

\* ------------------------------------------------------- sample inputs
TitleHello == <<"H","e","l","l","o",","," ","W","o","r","l","d","!">>
SlugHello == <<"h","e","l","l","o","-","w","o","r","l","d">>
SlugOther == <<"o","l","d","-","u","r","l">>
AuthorsTwo == <<" "," ","S","m","i","t","h"," ",","," ","J","o","n","e","s">>
BaseUrl == <<"h","t","t","p","s",":","/","/","a","p","i">>
SecretKey == <<"k","3","y">>

\* The configurations a deployment may start with.  API_BASE_URL is set in
\* every one of them; API_KEY may be unset or empty.
Environments ==
    [API_BASE_URL : {Str(BaseUrl)}, API_KEY : {None, Str(<<>>), Str(SecretKey)}]

Pages == {1, 2}
SearchTerms == {None, Str(<<>>), Str(<<"q">>)}
ArticleIds == {7, 42}
RequestSlugs == {SlugHello, SlugOther}

\* A record of a page as the upstream sends it: the derived keys are not there.
UpstreamRecord(title, author) ==
    [title |-> title, author |-> author, slug |-> Absent, shortAuthorName |-> Absent]
RecordPool ==
    { UpstreamRecord(Str(TitleHello), Str(AuthorsTwo)),
      UpstreamRecord(Absent, None),
      UpstreamRecord(None, Absent) }
RecordLists == UNION { [1..n -> RecordPool] : n \in 0..MaxRecords }

\* The single article of a by-id body: JSON null, or a dict.
NullArticle == [null |-> TRUE, Title |-> Absent, Authors |-> Absent]
Articles ==
    [null : {FALSE}, Title : {Absent, None, Str(TitleHello)},
     Authors : {Absent, None, Str(AuthorsTwo)}]

\* A response body.  json: whether response.json() can parse it.  hasData and
\* hasD: whether the dict holds the key 'data' and the key 'D'.
EmptyBody ==
    [json |-> FALSE, hasData |-> FALSE, data |-> <<>>, currentPage |-> 0,
     totalPages |-> 0, hasD |-> FALSE, D |-> NullArticle]
ListBodies ==
    { [EmptyBody EXCEPT !.json = TRUE, !.hasData = h, !.data = d,
                        !.currentPage = m[1], !.totalPages = m[2]] :
        h \in {TRUE}, d \in RecordLists, m \in {<<1, 2>>, <<2, 2>>} }
    \cup
    { [EmptyBody EXCEPT !.json = TRUE, !.currentPage = m[1], !.totalPages = m[2]] :
        m \in {<<1, 2>>, <<2, 2>>} }
DetailBodies ==
    { [EmptyBody EXCEPT !.json = TRUE, !.hasD = TRUE, !.D = a] :
        a \in Articles \cup {NullArticle} }
    \cup { [EmptyBody EXCEPT !.json = TRUE] }

OkStatuses == {200, 201}
FailStatuses == {301, 404, 500}

\* What the awaited client.get(...) ends with: a transport failure, or a
\* response with a status and a body.
TransportFailure == [kind |-> "transport", status |-> 0, body |-> EmptyBody]
Answer(status, body) == [kind |-> "response", status |-> status, body |-> body]
Outcomes(bodies) ==
    {TransportFailure}
    \cup { Answer(st, EmptyBody) : st \in FailStatuses \cup OkStatuses }
    \cup { Answer(st, b) : st \in OkStatuses, b \in bodies }
ListOutcomes == Outcomes(ListBodies)
DetailOutcomes == Outcomes(DetailBodies)

\* ------------------------------------------------------ upstream client
\* response.raise_for_status() passes the 2xx statuses only.
is_success(status) == status >= 200 /\ status <= 299

\* The try block after the call: the exception it raises ("none": it
\* returns response.json()).
TryBody(outcome) ==
    IF outcome.kind = "transport" THEN "ConnectError"
    ELSE IF ~is_success(outcome.status) THEN "HTTPStatusError"
    ELSE IF ~outcome.body.json THEN "JSONDecodeError"
    ELSE "none"

\* The except clauses with 'except Exception' left out.
CaughtStatusOnly(exc) == exc = "HTTPStatusError"

\* except httpx.HTTPStatusError / except Exception: all three are Exceptions.
Caught(exc) ==
    exc = "HTTPStatusError" \/ exc \in {"HTTPStatusError", "ConnectError", "JSONDecodeError"}

\* What a fetch function hands its caller: the parsed body, None, or an
\* exception that escapes it.
Returned(body) == [isNone |-> FALSE, body |-> body, escaped |-> "none"]
ReturnedNone == [isNone |-> TRUE, body |-> EmptyBody, escaped |-> "none"]
Escaped(exc) == [isNone |-> TRUE, body |-> EmptyBody, escaped |-> exc]

FetchResult(outcome) ==
    LET exc == TryBody(outcome)
    IN  IF exc = "none" THEN Returned(outcome.body)
        ELSE IF Caught(exc) THEN ReturnedNone
        ELSE Escaped(exc)

fetch_articles(outcome) == FetchResult(outcome)
fetch_article_by_id(outcome) == FetchResult(outcome)

\* One outbound GET.
Get(path, page, search, id) ==
    [base |-> API_BASE_URL, path |-> path, page |-> page, search |-> search,
     id |-> id, key |-> API_KEY]

\* fetch_articles with the call placed under 'if search:'.
fetch_articles_calls_under_if(page, search) ==
    IF Truthy(search) THEN <<Get("/GetArticles", page, search, 0)>> ELSE <<>>

\* The GETs fetch_articles issues: one, with 'search' among the query
\* parameters only when the term is non-empty.
fetch_articles_calls(page, search) ==
    <<Get("/GetArticles", page, IF Truthy(search) THEN search ELSE Absent, 0)>>

\* The GETs fetch_article_by_id issues.
fetch_article_by_id_calls(article_id) ==
    <<Get("/GetArticleByID", 0, Absent, article_id)>>

\* ------------------------------------------------------------ handlers
\* A response.  view: the template rendered, or "HTTPException" (the handler
\* raised it) or "Internal Server Error" (another exception left the handler
\* and the framework answered); exc names that exception.
BlankResponse ==
    [status |-> 0, view |-> "", exc |-> "none", message |-> "", location |-> <<>>,
     articles |-> <<>>, current_page |-> 0, total_pages |-> 0, page_size |-> 0,
     search_term |-> Absent, article |-> NullArticle, short_author |-> <<>>]

Unhandled(exc) ==
    [BlankResponse EXCEPT !.status = 500, !.view = "Internal Server Error", !.exc = exc]

\* What the part of a handler after its await did: the response, the steps
\* taken in order, and whether it subscripted the None a fetch returned.
Result(resp, steps, deref) == [resp |-> resp, steps |-> steps, derefNone |-> deref]

\* The guard of the error view with 'not data.get("data")' left out.
ListDataUnavailableNoneOnly(data) == data.isNone

\* data is None or not data.get("data")
ListDataUnavailable(data) ==
    data.isNone \/ ~data.body.hasData \/ data.body.data = <<>>

\* The loop body with the author string stored as it came.
EnrichArticleNoExtract(article) ==
    [article EXCEPT
        !.slug = Str(create_slug(DictGet(article.title, Str(<<>>)))),
        !.shortAuthorName = DictGet(article.author, Str(<<>>))]

\* The loop body: article['slug'] and article['shortAuthorName'].
EnrichArticle(article) ==
    [article EXCEPT
        !.slug = Str(create_slug(DictGet(article.title, Str(<<>>)))),
        !.shortAuthorName = Str(extract_first_author(DictGet(article.author, Str(<<>>))))]

\* The handler's own parameters with another suspended request's in their
\* place, as if they were kept in a module global the latest request overwrites.
HandlerLocalsShared(req) ==
    LET others == {q \in DOMAIN inflight : q # req}
    IN  IF others = {} THEN req ELSE CHOOSE q \in others : TRUE

\* The parameters of the coroutine that is resumed: its own.
HandlerLocals(req) == req

\* serve_article_list from the return of fetch_articles on.
serve_article_list(req, data) ==
    IF data.escaped # "none" THEN Result(Unhandled(data.escaped), <<"raise">>, FALSE)
    ELSE IF ListDataUnavailable(data)
    THEN Result([BlankResponse EXCEPT !.status = 500, !.view = "error.html",
                    !.message = "Could not load article data."],
                <<"render">>, FALSE)
    ELSE IF data.isNone THEN Result(Unhandled("TypeError"), <<"raise">>, TRUE)
    ELSE IF ~data.body.hasData THEN Result(Unhandled("KeyError"), <<"raise">>, FALSE)
    ELSE IF data.body.data = <<>>
    THEN Result(Unhandled("UnboundLocalError"), <<"raise">>, FALSE)
    ELSE LET articles == [i \in DOMAIN data.body.data |-> EnrichArticle(data.body.data[i])]
         IN  Result([BlankResponse EXCEPT
                        !.status = 200, !.view = "articles_template.html",
                        !.articles = articles,
                        !.current_page = data.body.currentPage,
                        !.total_pages = data.body.totalPages,
                        !.page_size = PAGE_SIZE,
                        !.search_term = req.search],
                    [i \in DOMAIN articles |-> "enrich"] \o <<"render">>, FALSE)

\* serve_article_detail from the return of fetch_article_by_id on.
serve_article_detail(req, data) ==
    IF data.escaped # "none" THEN Result(Unhandled(data.escaped), <<"raise">>, FALSE)
    ELSE IF data.isNone THEN Result(Unhandled("TypeError"), <<"raise">>, TRUE)
    ELSE IF ~data.body.hasD THEN Result(Unhandled("KeyError"), <<"raise">>, FALSE)
    ELSE LET article == data.body.D
         IN  IF article.null
             THEN Result([BlankResponse EXCEPT !.status = 404, !.view = "HTTPException",
                             !.message = "Article not found or API call failed"],
                         <<"raise">>, FALSE)
             ELSE LET expected_slug == create_slug(DictGet(article.Title, Str(<<>>)))
                  IN  Result([BlankResponse EXCEPT
                                 !.status = 200, !.view = "article_detail.html",
                                 !.article = article,
                                 !.short_author =
                                     extract_first_author(DictGet(article.Authors, Str(<<>>)))],
                             <<"enrich", "render">>, FALSE)

\* ------------------------------------------------------------- actions
NoExchange == [kind |-> "none"]

\* if not API_KEY: raise ValueError, with the check left out.
StartupRefusedNever(key) == FALSE

\* if not API_KEY: raise ValueError
StartupRefused(key) == ~Truthy(key)

Init ==
    /\ env \in Environments
    /\ phase = "boot"
    /\ API_BASE_URL = None
    /\ API_KEY = None
    /\ PAGE_SIZE = 0
    /\ inflight = <<>>
    /\ served = NoExchange
    /\ pureOp = "none"
    /\ pureIn = None
    /\ pureOut = <<>>
    /\ purePrev = <<>>

\* The import of the module: the globals are read from the environment and
\* the import fails when API_KEY is missing.
Startup ==
    /\ phase = "boot"
    /\ API_BASE_URL' = env.API_BASE_URL
    /\ API_KEY' = env.API_KEY
    /\ IF StartupRefused(env.API_KEY)
       THEN phase' = "failed" /\ UNCHANGED PAGE_SIZE
       ELSE phase' = "serving" /\ PAGE_SIZE' = PageSizeLiteral
    /\ UNCHANGED <<env, inflight, served>>
    /\ UNCHANGED pureVars

InFlightCount == BagCardinality(inflight)

Suspend(req) ==
    /\ phase = "serving"
    /\ served = NoExchange
    /\ InFlightCount < MaxInFlight
    /\ inflight' = inflight (+) SetToBag({req})
    /\ UNCHANGED <<env, phase, API_BASE_URL, API_KEY, PAGE_SIZE, served>>
    /\ UNCHANGED pureVars

\* GET / and GET /GetArticles/{page}: the handler runs to its await, where
\* fetch_articles has issued its call.
ListStart ==
    \E page \in Pages, search \in SearchTerms :
        Suspend([kind |-> "list", page |-> page, search |-> search,
                 article_id |-> 0, slug |-> <<>>,
                 calls |-> fetch_articles_calls(page, search)])

\* GET /article/{article_id}/{slug}: the handler runs to its await.
DetailStart ==
    \E article_id \in ArticleIds, slug \in RequestSlugs :
        Suspend([kind |-> "detail", page |-> 0, search |-> Absent,
                 article_id |-> article_id, slug |-> slug,
                 calls |-> fetch_article_by_id_calls(article_id)])

Complete(req, outcome, fetched, result) ==
    /\ served = NoExchange
    /\ inflight' = inflight (-) SetToBag({req})
    /\ served' = [kind |-> req.kind, req |-> req, outcome |-> outcome,
                  fetched |-> fetched, resp |-> result.resp,
                  log |-> [i \in DOMAIN req.calls |-> "call"] \o <<"return">>
                          \o result.steps,
                  derefNone |-> result.derefNone]
    /\ UNCHANGED <<env, phase, API_BASE_URL, API_KEY, PAGE_SIZE>>
    /\ UNCHANGED pureVars

\* The upstream call of a list request ends and the handler runs to its end.
ListResume ==
    \E req \in DOMAIN inflight, outcome \in ListOutcomes :
        /\ req.kind = "list"
        /\ LET data == fetch_articles(outcome)
           IN  Complete(req, outcome, data, serve_article_list(HandlerLocals(req), data))

\* The upstream call of a detail request ends and the handler runs to its end.
DetailResume ==
    \E req \in DOMAIN inflight, outcome \in DetailOutcomes :
        /\ req.kind = "detail"
        /\ LET data == fetch_article_by_id(outcome)
           IN  Complete(req, outcome, data, serve_article_detail(HandlerLocals(req), data))

\* The framework sends the response to the client: the exchange is over.
Deliver ==
    /\ served # NoExchange
    /\ served' = NoExchange
    /\ UNCHANGED <<env, phase, API_BASE_URL, API_KEY, PAGE_SIZE, inflight>>
    /\ UNCHANGED pureVars

Next ==
    Startup \/ ListStart \/ DetailStart \/ ListResume \/ DetailResume \/ Deliver

Spec == Init /\ [][Next]_vars

\* ------------------------------------------- the pure functions alone
Alphabet == {"a", "B", "1", " ", "-", "'", ","}
Texts == UNION { [1..n -> Alphabet] : n \in 0..MaxLen }
\* The examples of the docstrings and of the specification.
Text12 == <<"S","m","i","t","h",","," ","J","o","n","e","s">>
TextSmith == <<"S","m","i","t","h">>
TextDocTitle ==
    <<"T","h","e"," ","C","#"," ","A","P","I"," ","&"," ",
      "P","y","t","h","o","n"," ","R","e","n","d","e","r","e","r","!">>
TextDocSlug ==
    <<"t","h","e","-","c","-","a","p","i","-",
      "p","y","t","h","o","n","-","r","e","n","d","e","r","e","r">>
ExampleTexts == {Text12, TextSmith, AuthorsTwo, TitleHello, TextDocTitle}
TextInputs == {None} \cup { Str(t) : t \in Texts \cup ExampleTexts }

\* The pure functions are applied to every text of Texts, and to None.
InitPure ==
    /\ env = [API_BASE_URL |-> Str(BaseUrl), API_KEY |-> Str(SecretKey)]
    /\ phase = "boot"
    /\ API_BASE_URL = None
    /\ API_KEY = None
    /\ PAGE_SIZE = 0
    /\ inflight = <<>>
    /\ served = NoExchange
    /\ pureOp = "none"
    /\ pureIn \in TextInputs
    /\ pureOut = <<>>
    /\ purePrev = <<>>

CallExtractFirstAuthor ==
    /\ pureOp = "none"
    /\ pureOut' = extract_first_author(pureIn)
    /\ pureOp' = "author"
    /\ UNCHANGED <<pureIn, purePrev>>
    /\ UNCHANGED serverVars

CallCreateSlug ==
    /\ pureOp = "none"
    /\ pureOut' = create_slug(pureIn)
    /\ pureOp' = "slug"
    /\ UNCHANGED <<pureIn, purePrev>>
    /\ UNCHANGED serverVars

\* create_slug applied to the slug it made.
CallCreateSlugAgain ==
    /\ pureOp = "slug"
    /\ pureOut' = create_slug(Str(pureOut))
    /\ purePrev' = pureOut
    /\ pureOp' = "reslug"
    /\ UNCHANGED pureIn
    /\ UNCHANGED serverVars

NextPure == CallExtractFirstAuthor \/ CallCreateSlug \/ CallCreateSlugAgain

SpecPure == InitPure /\ [][NextPure]_vars

\* ------------------------------------------------------------- claims
NoEdgeWhitespace(t) ==
    t = <<>> \/ (t[1] \notin Whitespace /\ t[Len(t)] \notin Whitespace)

\* out is p without its leading and trailing whitespace.
IsTrimOf(out, p) ==
    /\ NoEdgeWhitespace(out)
    /\ \E a, b \in 0..Len(p) :
        /\ a + b <= Len(p)
        /\ out = SubSeq(p, a + 1, Len(p) - b)
        /\ \A i \in 1..a : p[i] \in Whitespace
        /\ \A i \in (Len(p) - b + 1)..Len(p) : p[i] \in Whitespace

\* p is the part of t before its first comma, all of t when it has none.
IsBeforeFirstComma(p, t) ==
    /\ Len(p) <= Len(t)
    /\ p = SubSeq(t, 1, Len(p))
    /\ "," \notin Range(p)
    /\ Len(p) = Len(t) \/ t[Len(p) + 1] = ","

\* Lowercase letters and digits in hyphen-separated groups.
IsSlugText(t) ==
    /\ Range(t) \subseteq SlugChars
    /\ t = <<>> \/ (t[1] # "-" /\ t[Len(t)] # "-")
    /\ \A i \in 1..(Len(t) - 1) : ~(t[i] = "-" /\ t[i+1] = "-")

\* C7: extract_first_author returns the text before the first comma with the
\* surrounding whitespace removed, the whole trimmed text when there is no
\* comma, and the empty text for an empty or absent input; its result holds
\* no comma and no leading or trailing whitespace; the four examples hold.
ExtractFirstAuthorTrimsFirstName ==
    /\ pureOp = "author" =>
        /\ ~Truthy(pureIn) => pureOut = <<>>
        /\ Truthy(pureIn) =>
            \E k \in 0..Len(pureIn.s) :
                /\ IsBeforeFirstComma(SubSeq(pureIn.s, 1, k), pureIn.s)
                /\ IsTrimOf(pureOut, SubSeq(pureIn.s, 1, k))
        /\ "," \notin Range(pureOut)
        /\ NoEdgeWhitespace(pureOut)
        /\ pureIn \in {Str(Text12), Str(TextSmith), Str(AuthorsTwo)} => pureOut = TextSmith
        /\ pureIn = Str(<<>>) => pureOut = <<>>

ExtractFirstAuthorWitness ==
    /\ pureOp = "author"
    /\ pureIn = Str(<<" ", "a", " ", ",">>)
    /\ pureOut = <<"a">>

\* C8: create_slug applied to its own result returns it unchanged, a text
\* that is already a slug is returned unchanged, empty or absent input gives
\* the empty text, and every result is lowercase letters and digits in
\* hyphen-separated groups; the docstring's example holds.
CreateSlugIdempotent ==
    /\ pureOp = "reslug" => pureOut = purePrev
    /\ pureOp = "slug" /\ ~Truthy(pureIn) => pureOut = <<>>
    /\ pureOp = "slug" /\ Truthy(pureIn) /\ IsSlugText(pureIn.s) => pureOut = pureIn.s
    /\ pureOp \in {"slug", "reslug"} => IsSlugText(pureOut)
    /\ pureOp = "slug" /\ pureIn = Str(TextDocTitle) => pureOut = TextDocSlug
    /\ pureOp = "slug" /\ pureIn = Str(TitleHello) => pureOut = SlugHello

CreateSlugWitness ==
    /\ pureOp = "reslug"
    /\ pureIn = Str(<<"B", ",", " ", "a">>)
    /\ pureOut = <<"b", "-", "a">>
    /\ purePrev = <<"b", "-", "a">>

\* An upstream answer with a 2xx status whose body parses as JSON.
AnsweredJson(outcome) ==
    outcome.kind = "response" /\ outcome.status \in 200..299 /\ outcome.body.json

\* C1: a detail request whose fetch returned None ends with HTTP 404 and
\* reads nothing off the None.
DetailFailedFetchGives404 ==
    (served.kind = "detail" /\ served.fetched.isNone) =>
        (served.resp.status = 404 /\ ~served.derefNone)

\* C2: a list request whose fetch returned None, or a body whose 'data' is
\* missing or empty, ends with the error view and HTTP 500, and no record
\* is enriched.
ListUnavailableGivesError500 ==
    (/\ served.kind = "list"
     /\ \/ served.fetched.isNone
        \/ ~served.fetched.body.hasData
        \/ served.fetched.body.data = <<>>) =>
        /\ served.resp.status = 500
        /\ served.resp.view = "error.html"
        /\ served.resp.articles = <<>>
        /\ "enrich" \notin Range(served.log)

ListUnavailableWitness ==
    /\ served.kind = "list"
    /\ ~served.fetched.isNone
    /\ served.fetched.body.hasData
    /\ served.fetched.body.data = <<>>
    /\ served.resp.status = 500

DetailSlugMismatchRedirects ==
    (/\ served.kind = "detail"
     /\ ~served.fetched.isNone
     /\ served.fetched.body.hasD
     /\ ~served.fetched.body.D.null) =>
        LET expected ==
                create_slug(DictGet(served.fetched.body.D.Title, Str(<<>>)))
        IN  IF served.req.slug # expected
            THEN /\ served.resp.status \in 300..399
                 /\ served.resp.location = <<served.req.article_id, expected>>
            ELSE /\ served.resp.status = 200
                 /\ served.resp.view = "article_detail.html"

\* C5: a fetch returns the parsed body when the upstream answers 2xx with a
\* JSON body, returns None on every other status and on a transport
\* failure, and lets no exception out.
FetchReturnsBodyOrNone ==
    served.kind # "none" =>
        /\ AnsweredJson(served.outcome) =>
               (~served.fetched.isNone /\ served.fetched.body = served.outcome.body)
        /\ (\/ served.outcome.kind = "transport"
            \/ served.outcome.status \notin 200..299) => served.fetched.isNone
        /\ served.fetched.escaped = "none"

FetchFailureWitness ==
    /\ served.kind = "detail"
    /\ served.outcome = TransportFailure
    /\ served.fetched.isNone
    /\ served.fetched.escaped = "none"

\* C6: with API_KEY unset or empty the process fails at startup, no request
\* is handled and no upstream call is made; whenever a request is being
\* handled API_KEY is set and non-empty, and every call carries it.
NoServiceWithoutApiKey ==
    /\ ~Truthy(env.API_KEY) =>
           (phase \in {"boot", "failed"} /\ inflight = EmptyBag /\ served.kind = "none")
    /\ (inflight # EmptyBag \/ served.kind # "none") =>
           (phase = "serving" /\ Truthy(API_KEY) /\ API_KEY = env.API_KEY)
    /\ \A req \in DOMAIN inflight :
           \A i \in DOMAIN req.calls : Truthy(req.calls[i].key)

StartupFailedWitness ==
    /\ phase = "failed"
    /\ ~Truthy(env.API_KEY)
    /\ inflight = EmptyBag

Terminal == {"render", "raise"}

\* One call, its return, then the enrichment, then one terminal response.
LogWellFormed(log) ==
    /\ Len(log) >= 3
    /\ log[1] = "call"
    /\ log[2] = "return"
    /\ Cardinality({i \in DOMAIN log : log[i] = "call"}) = 1
    /\ Cardinality({i \in DOMAIN log : log[i] \in Terminal}) = 1
    /\ log[Len(log)] \in Terminal
    /\ \A i \in 3..(Len(log) - 1) : log[i] = "enrich"

OwnResponse(req, outcome) ==
    IF req.kind = "list"
    THEN serve_article_list(req, fetch_articles(outcome)).resp
    ELSE serve_article_detail(req, fetch_article_by_id(outcome)).resp

\* C10: whatever other requests are suspended, the response of a request is
\* the one its own parameters and its own upstream outcome give, and while
\* requests are served API_BASE_URL, API_KEY and PAGE_SIZE keep the values
\* the import gave them.
RequestsIsolated ==
    /\ phase = "serving" =>
        /\ API_BASE_URL = env.API_BASE_URL
        /\ API_KEY = env.API_KEY
        /\ PAGE_SIZE = PageSizeLiteral
    /\ served.kind # "none" =>
        /\ served.resp = OwnResponse(served.req, served.outcome)
        /\ served.kind = "list" /\ served.resp.status = 200 =>
               /\ served.resp.search_term = served.req.search
               /\ served.resp.page_size = PageSizeLiteral

IsolationWitness ==
    /\ served.kind = "list"
    /\ served.resp.status = 200
    /\ \E q \in DOMAIN inflight : q.kind = "list" /\ q.search # served.req.search

====
